---- MODULE Spec2Model ----
(***************************************************************************)
(* scripts/get_distance_to_focal_set.py: the SNP encoder                   *)
(* (calculate_snp_matrix), the distance engine (calculate_distance_matrix) *)
(* and the chunk loop of __main__ that writes, for every context sequence, *)
(* the closest focal sequence and its distance.                            *)
(*                                                                         *)
(* A sequence is a tuple of character codes (97 = a, 99 = c, 103 = g,      *)
(* 116 = t, 110 = n, 45 = -, 65 = A ...).  Columns and masked positions    *)
(* are 0-based, as in the arrays of the source.                            *)
(***************************************************************************)
EXTENDS Integers, Sequences, FiniteSets, TLC

VARIABLES
    pc,                 \* position of the program / of the call
    reference,          \* --reference: the raw reference sequence
    ignore_seqs,        \* --ignore-seqs / the ignore_seqs argument
    chunk_size,         \* --chunk-size / the chunk_size argument
    focal_alignment,    \* the records the focal iterator has given out
    alignment,          \* the records the iterator seqs (fastafile) has given out
    exhausted,          \* that iterator has signalled the end of its file
    ref,                \* the normalized reference / the consensus argument
    enc,                \* locals of the running calculate_snp_matrix call
    focal_seqs_dict,    \* result of encoding the focal set
    context_seqs_dict,  \* result of encoding the last chunk
    d,                  \* distance matrix of the last chunk
    closest_match,      \* argmin row of the last chunk
    fh_out,             \* lines written to --output
    chunk_count,        \* chunks processed
    returned            \* what a call on its own returned

vars == <<pc, reference, ignore_seqs, chunk_size, focal_alignment, alignment,
          exhausted, ref, enc, focal_seqs_dict, context_seqs_dict, d,
          closest_match, fh_out, chunk_count, returned>>

----------------------------------------------------------------------------
(* Bounds of the model *)

MaxLen == 2          \* alignment length of the pair and single-record inputs
SelectLen == 2       \* alignment length of the selection inputs
MaxContext == 3      \* records of the context stream, and the chunk size
EncRecords == 2      \* records of a stream given to one encoder call
BufRecords == 4      \* records of a stream of large records

(* Program constants *)

INITIALISATION_LENGTH == 1000000
FILL_VALUE == 110

----------------------------------------------------------------------------
(* Helpers *)

None == [kind |-> "None"]

Range(f) == {f[x] : x \in DOMAIN f}

RECURSIVE SumOver(_, _)
SumOver(S, f) ==
    IF S = {} THEN 0
    ELSE LET x == CHOOSE y \in S : TRUE IN f[x] + SumOver(S \ {x}, f)

\* the elements of a set of integers in ascending order
RECURSIVE Ascending(_)
Ascending(S) ==
    IF S = {} THEN <<>>
    ELSE LET m == CHOOSE x \in S : \A y \in S : x <= y
         IN <<m>> \o Ascending(S \ {m})

\* all tuples of length n over S
Tuples(S, n) == [1..n -> S]

----------------------------------------------------------------------------
(* sequence_to_int_array *)

\* str.lower() on one character code
Lower(c) == IF c >= 65 /\ c <= 90 THEN c + 32 ELSE c

sequence_to_int_array(s, fill_value, fill_gaps) ==
    [p \in 1..Len(s) |->
        LET c == Lower(s[p]) IN
        IF fill_gaps
        THEN IF c # 97 /\ c # 99 /\ c # 103 /\ c # 116 THEN fill_value ELSE c
        ELSE IF c # 97 /\ c # 99 /\ c # 103 /\ c # 116 /\ c # 45
             THEN fill_value ELSE c]

----------------------------------------------------------------------------
(* calculate_snp_matrix *)

\* the locals before the loop; consensus is {} for None, {array} otherwise
NewEncoder(consensus) ==
    [status |-> "running",
     consensus |-> consensus,
     align_length |-> 0,
     row |-> <<>>, col |-> <<>>, val |-> <<>>,
     r |-> 0, n_snps |-> 0, nseqs |-> 0, right |-> 0,
     seq_names |-> <<>>, filled_positions |-> <<>>,
     current_length |-> INITIALISATION_LENGTH]

\* the capacity after the growth test for a triple count of right
\* (right >= current_length/2 is 2*right >= current_length)
GrowByHalf(current_length, right) ==
    IF 2 * right >= current_length
    THEN current_length + (INITIALISATION_LENGTH \div 2)
    ELSE current_length

Grow(current_length, right) ==
    IF 2 * right >= current_length
    THEN current_length + INITIALISATION_LENGTH
    ELSE current_length

\* the counters after a record with count SNPs is accepted: nseqs, right, the
\* capacity of row/col/val, r and n_snps
Account(e, count) ==
    LET right == e.n_snps + count IN
    [e EXCEPT !.nseqs = e.nseqs + 1,
              !.right = right,
              !.current_length = Grow(e.current_length, right),
              !.r = e.r + 1,
              !.n_snps = right]

\* (consensus != s) & (s != fill_value), as the set of 0-based columns
SnpsUnmaskedReference(consensus, s, fill_value) ==
    {p - 1 : p \in {q \in 1..Len(s) :
                        consensus[q] # s[q] /\ consensus[q] # fill_value}}

Snps(consensus, s, fill_value) ==
    {p - 1 : p \in {q \in 1..Len(s) : consensus[q] # s[q] /\ s[q] # fill_value}}

\* np.where(s == fill_value)[0]
FilledOneBased(s, fill_value) ==
    Ascending({q \in 1..Len(s) : s[q] = fill_value})

Filled(s, fill_value) ==
    Ascending({p - 1 : p \in {q \in 1..Len(s) : s[q] = fill_value}})

\* h in ignore_seqs
IsIgnored(h, ignore) == h \in ignore

\* len(s) != align_length
LengthExceeds(s, align_length) == Len(s) > align_length

LengthDiffers(s, align_length) == Len(s) # align_length

\* one iteration of the loop over the records: record = [name, seq]
EncodeStep(e, record, fill_value, chunk, ignore) ==
    LET h == record.name
        s0 == record.seq
    IN
    IF IsIgnored(h, ignore) THEN e
    ELSE
    LET consensus == IF e.consensus = {}
                     THEN sequence_to_int_array(s0, fill_value, TRUE)
                     ELSE CHOOSE c \in e.consensus : TRUE
        align_length == IF e.consensus = {} THEN Len(s0) ELSE Len(consensus)
        seq_names == Append(e.seq_names, h)
    IN
    IF LengthDiffers(s0, align_length)
    THEN [e EXCEPT !.status = "ValueError", !.consensus = {consensus},
                   !.align_length = align_length,
                   !.nseqs = e.nseqs + 1, !.seq_names = seq_names]
    ELSE
    LET s == sequence_to_int_array(s0, fill_value, TRUE)
        snps == Ascending(Snps(consensus, s, fill_value))
        counted == Account(e, Len(snps))
    IN
    [counted EXCEPT
        !.status = IF chunk # 0 /\ chunk = counted.nseqs THEN "break" ELSE "running",
        !.consensus = {consensus},
        !.align_length = align_length,
        !.row = e.row \o [k \in 1..Len(snps) |-> e.r],
        !.col = e.col \o snps,
        !.val = e.val \o [k \in 1..Len(snps) |-> s[snps[k] + 1]],
        !.seq_names = seq_names,
        !.filled_positions = Append(e.filled_positions, Filled(s, fill_value))]

\* sparse.csc_matrix((val, (row, col)), shape): entries at the same cell add up
csc_matrix(val, row, col, nrows, ncols) ==
    [i \in 1..nrows |-> [p \in 1..ncols |->
        LET K == {k \in 1..Len(val) : row[k] = i - 1 /\ col[k] = p - 1}
        IN SumOver(K, val)]]

\* the value returned after the loop
EncoderResult(e) ==
    IF e.nseqs = 0 THEN None
    ELSE [kind |-> "dict",
          snps |-> csc_matrix(SubSeq(e.val, 1, e.right), SubSeq(e.row, 1, e.right),
                              SubSeq(e.col, 1, e.right), e.nseqs, e.align_length),
          consensus |-> CHOOSE c \in e.consensus : TRUE,
          names |-> e.seq_names,
          filled_positions |-> e.filled_positions]

\* the whole loop over the records of a list
RECURSIVE EncodeAll(_, _, _, _, _, _)
EncodeAll(e, stream, from, fill_value, chunk, ignore) ==
    IF e.status # "running" \/ from > Len(stream) THEN e
    ELSE EncodeAll(EncodeStep(e, stream[from], fill_value, chunk, ignore),
                   stream, from + 1, fill_value, chunk, ignore)

----------------------------------------------------------------------------
(* calculate_distance_matrix *)

\* entry (i, j) of (1*(A == v)) * (B.transpose() == v)
EqualAt(A, B, v, i, j) ==
    Cardinality({p \in 1..Len(A[i]) : A[i][p] = v /\ B[j][p] = v})

\* the four nucleotide products, added up
SameBase(A, B, i, j) ==
    EqualAt(A, B, 97, i, j) + EqualAt(A, B, 99, i, j)
    + EqualAt(A, B, 103, i, j) + EqualAt(A, B, 116, i, j)

\* n_comp
NComp(A, B, i, j) == EqualAt(A, B, 110, i, j)

\* (1*(M > 0)).sum(1), for row i
RowCount(M, i) == Cardinality({p \in 1..Len(M[i]) : M[i][p] > 0})

\* temp_total
TempTotalOfA(A, B, i, j) == RowCount(A, i)

TempTotal(A, B, i, j) == RowCount(A, i) + RowCount(B, j)

\* total_differences_shared
TotalDifferencesShared(A, B, i, j) ==
    Cardinality({p \in 1..Len(A[i]) : A[i][p] > 0 /\ B[j][p] > 0})

\* n_total
NTotal(A, B, i, j) ==
    Cardinality({p \in 1..Len(A[i]) : A[i][p] = 110})
    + Cardinality({p \in 1..Len(B[j]) : B[j][p] = 110})

\* diff_n
DiffN(A, B, i, j) == NTotal(A, B, i, j) - 2 * NComp(A, B, i, j)

\* the result: a matrix of Len(A) rows and Len(B) columns
calculate_distance_matrix(A, B) ==
    [i \in 1..Len(A) |-> [j \in 1..Len(B) |->
        TempTotal(A, B, i, j) - TotalDifferencesShared(A, B, i, j)
        - (SameBase(A, B, i, j) + NComp(A, B, i, j)) - DiffN(A, B, i, j)]]

----------------------------------------------------------------------------
(* __main__ *)

\* mask_count_focal
MaskCountFocal(focal) ==
    [j \in 1..Len(focal.filled_positions) |-> Len(focal.filled_positions[j])]

\* d + mask_count_focal/alignment_length at (i, j), times alignment_length: the
\* order of the sums is the order of these integers
PenalizedUnscaled(dist, mask_count_focal, alignment_length, i, j) ==
    dist[i][j] * alignment_length + mask_count_focal[j] * alignment_length

Penalized(dist, mask_count_focal, alignment_length, i, j) ==
    dist[i][j] * alignment_length + mask_count_focal[j]

\* np.argmin(..., axis=1): per row the first 0-based column of the least value
ArgMin(dist, mask_count_focal, alignment_length) ==
    [i \in 1..Len(dist) |->
        LET m == Len(dist[i])
            P(j) == Penalized(dist, mask_count_focal, alignment_length, i, j)
            best == CHOOSE j \in 1..m :
                        /\ \A k \in 1..m : P(j) <= P(k)
                        /\ \A k \in 1..(j - 1) : P(k) > P(j)
        IN best - 1]

\* dict[key] = value on an insertion-ordered dict, kept as a tuple of entries
DictAppend(dict, key, value) == Append(dict, [key |-> key, value |-> value])

DictSet(dict, key, value) ==
    IF \E k \in 1..Len(dict) : dict[k].key = key
    THEN [k \in 1..Len(dict) |->
            IF dict[k].key = key THEN [key |-> key, value |-> value] ELSE dict[k]]
    ELSE Append(dict, [key |-> key, value |-> value])

\* minimal_distance_to_focal_set after the first n context rows
RECURSIVE MinimalDistanceToFocalSet(_, _, _, _, _)
MinimalDistanceToFocalSet(context, focal, dist, closest, n) ==
    IF n = 0 THEN <<>>
    ELSE DictSet(MinimalDistanceToFocalSet(context, focal, dist, closest, n - 1),
                 context.names[n],
                 <<dist[n][closest[n] + 1], focal.names[closest[n] + 1]>>)

\* the lines written for one chunk: strain, closest strain, distance
ChunkLines(context, focal, dist, closest) ==
    LET dict == MinimalDistanceToFocalSet(context, focal, dist, closest,
                                          Len(context.names))
    IN [k \in 1..Len(dict) |->
            <<dict[k].key, dict[k].value[2], dict[k].value[1]>>]

Header == <<"strain", "closest strain", "distance">>

\* chunk_size=0, the default of calculate_snp_matrix: no cap
DEFAULT_CHUNK_SIZE == 0

\* the chunk_size argument of the call in the loop
ChunkCap == chunk_size

\* before the command line is read
Init ==
    /\ pc = "args"
    /\ reference = <<>>
    /\ ignore_seqs = {}
    /\ chunk_size = 0
    /\ focal_alignment = <<>>
    /\ alignment = <<>>
    /\ exhausted = FALSE
    /\ ref = <<>>
    /\ enc = None
    /\ focal_seqs_dict = None
    /\ context_seqs_dict = None
    /\ d = <<>>
    /\ closest_match = <<>>
    /\ fh_out = <<>>
    /\ chunk_count = 0
    /\ returned = None

\* parser.parse_args(): what the command line names
ParseArgs(References, Ignores, ChunkSizes) ==
    /\ pc = "args"
    /\ reference' \in References
    /\ ignore_seqs' \in Ignores
    /\ chunk_size' \in ChunkSizes
    /\ pc' = "start"
    /\ UNCHANGED <<focal_alignment, alignment, exhausted, ref, enc,
                   focal_seqs_dict, context_seqs_dict, d, closest_match,
                   fh_out, chunk_count, returned>>

\* the reference is read and normalized; the focal alignment is opened and
\* calculate_snp_matrix called on it
Startup ==
    /\ pc = "start"
    /\ ref' = sequence_to_int_array(reference, FILL_VALUE, TRUE)
    /\ enc' = NewEncoder({ref'})
    /\ pc' = "focal"
    /\ UNCHANGED <<reference, ignore_seqs, chunk_size, focal_alignment, alignment,
                   exhausted, focal_seqs_dict, context_seqs_dict, d,
                   closest_match, fh_out, chunk_count, returned>>

\* a focal file holds its records under these names, in this order
FocalNames == <<"f1", "f2">>

\* the call on the focal alignment takes the next record of the file, one of
\* Seqs: chunk_size by default, ignore_seqs as given
FocalRecord(Seqs, max) ==
    /\ pc = "focal"
    /\ enc.status = "running"
    /\ Len(focal_alignment) < max
    /\ \E s \in Seqs :
        LET record == [name |-> FocalNames[Len(focal_alignment) + 1], seq |-> s]
        IN /\ focal_alignment' = Append(focal_alignment, record)
           /\ enc' = EncodeStep(enc, record, FILL_VALUE, DEFAULT_CHUNK_SIZE,
                              ignore_seqs)
    /\ pc' = IF enc'.status = "ValueError" THEN "ValueError" ELSE pc
    /\ UNCHANGED <<reference, ignore_seqs, chunk_size, alignment, exhausted, ref,
                   focal_seqs_dict, context_seqs_dict, d, closest_match, fh_out,
                   chunk_count, returned>>

\* the focal file ends and the call returns: without a focal sequence the
\* program exits with status 1, else the context alignment and the output are
\* opened and the header is written
FocalReturn ==
    /\ pc = "focal"
    /\ enc.status = "running"
    /\ focal_seqs_dict' = EncoderResult(enc)
    /\ IF focal_seqs_dict'.kind = "None"
       THEN pc' = "exit1" /\ UNCHANGED fh_out
       ELSE pc' = "loop" /\ fh_out' = <<Header>>
    /\ chunk_count' = 0
    /\ UNCHANGED <<reference, ignore_seqs, chunk_size, focal_alignment, alignment,
                   exhausted, ref, enc, context_seqs_dict, d, closest_match,
                   returned>>

\* while True: calculate_snp_matrix is called on the iterator seqs
ChunkCall ==
    /\ pc = "loop"
    /\ enc' = NewEncoder({ref})
    /\ pc' = "context"
    /\ UNCHANGED <<reference, ignore_seqs, chunk_size, focal_alignment, alignment,
                   exhausted, ref, focal_seqs_dict, context_seqs_dict, d,
                   closest_match, fh_out, chunk_count, returned>>

\* the names of a context file: record k is called s<k>, or x like others
StrainNames == <<"s1", "s2", "s3", "s4", "s5", "s6">>

ContextNames(shared) ==
    {StrainNames[Len(alignment) + 1]} \cup (IF shared THEN {"x"} ELSE {})

\* the call takes the next record from the iterator: a name of Names and a
\* sequence of Seqs, the file holding at most max records
ContextRecord(Names, Seqs, max) ==
    /\ pc = "context"
    /\ enc.status = "running"
    /\ ~exhausted
    /\ Len(alignment) < max
    /\ \E name \in Names, s \in Seqs :
        LET record == [name |-> name, seq |-> s]
        IN /\ alignment' = Append(alignment, record)
           /\ enc' = EncodeStep(enc, record, FILL_VALUE, ChunkCap, {})
    /\ pc' = IF enc'.status = "ValueError" THEN "ValueError" ELSE pc
    /\ UNCHANGED <<reference, ignore_seqs, chunk_size, focal_alignment, exhausted,
                   ref, focal_seqs_dict, context_seqs_dict, d, closest_match,
                   fh_out, chunk_count, returned>>

\* what the loop does with the value the call returns: None ends the loop and
\* the output is closed
ChunkReturned ==
    /\ context_seqs_dict' = EncoderResult(enc)
    /\ pc' = IF context_seqs_dict'.kind = "None" THEN "done" ELSE "chunk"
    /\ UNCHANGED <<reference, ignore_seqs, chunk_size, focal_alignment, alignment,
                   ref, enc, focal_seqs_dict, d, closest_match, fh_out,
                   chunk_count, returned>>

\* the call returns on its break, after the last record of a full chunk, and a
\* record more is taken from the iterator and dropped
ContextBreakDropping ==
    /\ pc = "context"
    /\ enc.status = "break"
    /\ context_seqs_dict' = EncoderResult(enc)
    /\ pc' = "chunk"
    /\ alignment' = IF Len(alignment) < MaxContext
                    THEN Append(alignment,
                                [name |-> StrainNames[Len(alignment) + 1],
                                 seq |-> reference])
                    ELSE alignment
    /\ UNCHANGED <<reference, ignore_seqs, chunk_size, focal_alignment, exhausted,
                   ref, enc, focal_seqs_dict, d, closest_match, fh_out,
                   chunk_count, returned>>

\* the call returns on its break, after the last record of a full chunk
ContextBreak ==
    /\ pc = "context"
    /\ enc.status = "break"
    /\ ChunkReturned
    /\ UNCHANGED exhausted

\* the iterator has no record (any more): the loop of the call ends and the
\* call returns
ContextEnd ==
    /\ pc = "context"
    /\ enc.status = "running"
    /\ exhausted' = TRUE
    /\ ChunkReturned

\* the body of the loop after the call: mask counts, distances, argmin, the
\* lines of the chunk, the chunk counter
ProcessChunk ==
    /\ pc = "chunk"
    /\ d' = calculate_distance_matrix(context_seqs_dict.snps, focal_seqs_dict.snps)
    /\ closest_match' = ArgMin(d', MaskCountFocal(focal_seqs_dict), Len(ref))
    /\ fh_out' = fh_out \o ChunkLines(context_seqs_dict, focal_seqs_dict,
                                      d', closest_match')
    /\ chunk_count' = chunk_count + 1
    /\ pc' = "loop"
    /\ UNCHANGED <<reference, ignore_seqs, chunk_size, focal_alignment, alignment,
                   exhausted, ref, enc, focal_seqs_dict, context_seqs_dict,
                   returned>>

----------------------------------------------------------------------------
(* Inputs *)

\* sequences of the alignment length, and one that is one symbol longer
Aligned(Symbols, len) ==
    Tuples(Symbols, len) \cup {[p \in 1..(len + 1) |-> 97]}

\* Chunking: context files of up to MaxContext records of one symbol (A or c,
\* or one symbol too many), every chunk size up to MaxContext, against the
\* reference A and up to two focal records (c or -)
NextChunks ==
    \/ ParseArgs({<<65>>}, {{}}, 1..MaxContext)
    \/ Startup
    \/ FocalRecord(Tuples({45, 99}, 1), 2)
    \/ FocalReturn
    \/ ChunkCall
    \/ ContextRecord(ContextNames(TRUE), Aligned({65, 99}, 1), MaxContext)
    \/ ContextBreak
    \/ ContextEnd
    \/ ProcessChunk

Spec == Init /\ [][NextChunks]_vars

\* the program runs on: an enabled step of it is taken
FairSpec == Spec /\ WF_vars(NextChunks)

\* --ignore-seqs names nothing, or the first focal record
PairIgnores == {{}, {"f1"}}

\* Pairs: one context record against one focal record, over A, c, t and -, at
\* every alignment length up to MaxLen, the reference over A and -
NextPair ==
    \/ \E len \in 1..MaxLen : ParseArgs(Tuples({45, 65}, len), PairIgnores, {1})
    \/ Startup
    \/ FocalRecord(Aligned({45, 65, 99, 116}, Len(reference)), 1)
    \/ FocalReturn
    \/ ChunkCall
    \/ ContextRecord(ContextNames(FALSE),
                     Aligned({45, 65, 99, 116}, Len(reference)), 1)
    \/ ContextBreak
    \/ ContextEnd
    \/ ProcessChunk

SpecPair == Init /\ [][NextPair]_vars

\* Selection: one context record against up to two focal records, over A, c
\* and -, at every alignment length up to SelectLen, the reference over A and c
NextSelect ==
    \/ \E len \in 1..SelectLen : ParseArgs(Tuples({65, 99}, len), {{}}, {1})
    \/ Startup
    \/ FocalRecord(Tuples({45, 65, 99}, Len(reference)), 2)
    \/ FocalReturn
    \/ ChunkCall
    \/ ContextRecord(ContextNames(FALSE), Tuples({45, 65, 99}, Len(reference)), 1)
    \/ ContextBreak
    \/ ContextEnd
    \/ ProcessChunk

SpecSelect == Init /\ [][NextSelect]_vars

----------------------------------------------------------------------------
(* One call of calculate_snp_matrix on its own, record by record *)

\* one iteration of the loop: the next record of the stream is taken, a name of
\* Names and a sequence of Seqs, the stream holding at most max records
EncRecord(Names, Seqs, max) ==
    /\ pc = "encoding"
    /\ enc.status = "running"
    /\ Len(alignment) < max
    /\ \E name \in Names, s \in Seqs :
        LET record == [name |-> name, seq |-> s]
        IN /\ alignment' = Append(alignment, record)
           /\ enc' = EncodeStep(enc, record, FILL_VALUE, chunk_size, ignore_seqs)
    /\ pc' = IF enc'.status = "ValueError" THEN "ValueError" ELSE pc
    /\ UNCHANGED <<reference, ignore_seqs, chunk_size, focal_alignment, exhausted,
                   ref, focal_seqs_dict, context_seqs_dict, d, closest_match,
                   fh_out, chunk_count, returned>>

\* the loop is over (break, or no record left): the call returns
EncReturn ==
    /\ pc = "encoding"
    /\ enc.status = "break" \/ enc.status = "running"
    /\ returned' = EncoderResult(enc)
    /\ pc' = "returned"
    /\ UNCHANGED <<reference, ignore_seqs, chunk_size, focal_alignment, alignment,
                   exhausted, ref, enc, focal_seqs_dict, context_seqs_dict, d,
                   closest_match, fh_out, chunk_count>>

\* the call begins; ref holds the consensus argument: {} for None, {array}
\* otherwise
InitCall(Consensus, Ignores, ChunkSizes) ==
    /\ pc = "encoding"
    /\ ignore_seqs \in Ignores
    /\ chunk_size \in ChunkSizes
    /\ ref \in Consensus
    /\ enc = NewEncoder(ref)
    /\ reference = <<>>
    /\ focal_alignment = <<>>
    /\ alignment = <<>>
    /\ exhausted = FALSE
    /\ focal_seqs_dict = None
    /\ context_seqs_dict = None
    /\ d = <<>>
    /\ closest_match = <<>>
    /\ fh_out = <<>>
    /\ chunk_count = 0
    /\ returned = None

\* the names of the records of a stream, the ignore_seqs and the consensus
\* arguments of a call
EncNames == {"x", "y"}

EncIgnores == {{}, {"y"}}

ShortConsensus == {{}, {<<97>>}, {<<97, 110>>}}

\* Streams: up to EncRecords records of one or two symbols (A or n) under two
\* names, y being ignored or not, with and without a cap, the consensus None,
\* a, or a followed by n
InitEnc ==
    InitCall(ShortConsensus, EncIgnores, 0..EncRecords)

NextEnc ==
    \/ EncRecord(EncNames, Tuples({65, 110}, 1) \cup Tuples({65, 110}, 2),
                 EncRecords)
    \/ EncReturn

SpecEnc == InitEnc /\ [][NextEnc]_vars

\* Self-encoding: one record over A, c, g, t, n and - of every length up to
\* MaxLen, its own normalized sequence being the consensus, by default (None)
\* or supplied
InitSelf ==
    InitCall({{}} \cup {{c} : c \in UNION {Tuples({97, 99, 103, 110, 116}, len) :
                                            len \in 1..MaxLen}},
             {{}}, {0, 1})

\* the sequences whose own normalization is the consensus of the call
OwnSequences ==
    {s \in UNION {Tuples({45, 65, 99, 103, 110, 116}, len) : len \in 1..MaxLen} :
        ref = {} \/ ref = {sequence_to_int_array(s, FILL_VALUE, TRUE)}}

NextSelf ==
    \/ EncRecord({"x"}, OwnSequences, 1)
    \/ EncReturn

SpecSelf == InitSelf /\ [][NextSelf]_vars

----------------------------------------------------------------------------
(* The triple buffers of calculate_snp_matrix under large records: a record is *)
(* taken by its number of SNPs, alignment keeps the numbers taken so far       *)

\* SNP counts of records of an alignment no longer than INITIALISATION_LENGTH
SnpCounts ==
    {0, 1, (INITIALISATION_LENGTH \div 2) - 1, INITIALISATION_LENGTH \div 2,
     (INITIALISATION_LENGTH \div 2) + 1, INITIALISATION_LENGTH - 1,
     INITIALISATION_LENGTH}

\* one iteration of the loop on an accepted record
BufRecord ==
    /\ pc = "encoding"
    /\ Len(alignment) < BufRecords
    /\ \E count \in SnpCounts :
        /\ enc' = Account(enc, count)
        /\ alignment' = Append(alignment, count)
    /\ UNCHANGED <<pc, reference, ignore_seqs, chunk_size, focal_alignment,
                   exhausted, ref, focal_seqs_dict, context_seqs_dict, d,
                   closest_match, fh_out, chunk_count, returned>>

\* row = row[0:right] and so on: the length of the trimmed arrays
BufReturn ==
    /\ pc = "encoding"
    /\ enc.nseqs > 0
    /\ returned' = [kind |-> "arrays",
                    length |-> IF enc.right <= enc.current_length
                               THEN enc.right ELSE enc.current_length]
    /\ pc' = "returned"
    /\ UNCHANGED <<reference, ignore_seqs, chunk_size, focal_alignment, alignment,
                   exhausted, ref, enc, focal_seqs_dict, context_seqs_dict, d,
                   closest_match, fh_out, chunk_count>>

NextBuf == BufRecord \/ BufReturn

InitBuf == InitCall({{}}, {{}}, {0})

SpecBuf == InitBuf /\ [][NextBuf]_vars

----------------------------------------------------------------------------
(* What the properties speak of, read off the inputs *)

\* a symbol that is none of a, c, g, t in either case
Unknown(c) == c \notin {65, 67, 71, 84, 97, 99, 103, 116}

\* two symbols that are the same after normalization
SameSymbol(a, b) ==
    IF Unknown(a) \/ Unknown(b) THEN Unknown(a) /\ Unknown(b)
    ELSE a = b \/ a = b + 32 \/ b = a + 32

Matches(s, r) == Len(s) = Len(r) /\ \A p \in 1..Len(s) : SameSymbol(s[p], r[p])

Differences(s, r) == Cardinality({p \in 1..Len(s) : ~SameSymbol(s[p], r[p])})

MaskedColumns(s) == {p - 1 : p \in {q \in 1..Len(s) : Unknown(s[q])}}

NotIgnored(record) == record.name \notin ignore_seqs

UniqueNames(records) ==
    \A a, b \in 1..Len(records) : a # b => records[a].name # records[b].name

WellFormed(records, len) == \A k \in 1..Len(records) : Len(records[k].seq) = len

\* a chunk has just been processed: d and closest_match are those of the chunk
ChunkProcessed == pc = "loop" /\ context_seqs_dict.kind = "dict"

\* the records behind the rows of the last chunk and of the focal matrix
ChunkRecords ==
    SubSeq(alignment, Len(alignment) - Len(context_seqs_dict.names) + 1,
           Len(alignment))

FocalRecords == SelectSeq(focal_alignment, NotIgnored)

\* the records of the stream that an encoder call has taken and not skipped
TakenRecords == SelectSeq(alignment, NotIgnored)

----------------------------------------------------------------------------
(* Chunk loop (Spec, FairSpec) *)

\* the lines of a run with one chunk of all the records
SingleChunkLines ==
    LET e == EncodeAll(NewEncoder({ref}), alignment, 1, FILL_VALUE,
                       Len(alignment), {})
        context == EncoderResult(e)
    IN IF e.status = "ValueError" \/ context.kind # "dict" THEN <<>>
       ELSE LET dist == calculate_distance_matrix(context.snps, focal_seqs_dict.snps)
                closest == ArgMin(dist, MaskCountFocal(focal_seqs_dict), Len(ref))
            IN ChunkLines(context, focal_seqs_dict, dist, closest)

\* C1: chunking invariance. When the loop has ended on a context stream of
\* distinctly named records, the lines written chunk by chunk are the lines a
\* single chunk of all N records writes: the same closest focal strain and
\* distance for every context strain, whatever the chunk size.
C1_ChunkingInvariance ==
    (pc = "done" /\ UniqueNames(alignment))
        => fh_out = <<Header>> \o SingleChunkLines

C1_Witness ==
    /\ pc = "done"
    /\ UniqueNames(alignment)
    /\ Len(alignment) = 3
    /\ chunk_size = 2
    /\ chunk_count = 2
    /\ \E k \in 2..Len(fh_out) : fh_out[k][3] = 1
    /\ \E k \in 2..Len(fh_out) : fh_out[k][3] = 0

\* the names on the result lines written so far
LineNames == [k \in 1..(Len(fh_out) - 1) |-> fh_out[k + 1][1]]

\* C7 as stated: one result line per context identifier, an identifier that
\* comes again in a later chunk overwriting its line, so that the lines never
\* outnumber the distinct identifiers.
C7_OneLinePerIdentifier ==
    /\ \A a, b \in 1..Len(LineNames) : a # b => LineNames[a] # LineNames[b]
    /\ Len(LineNames) <= Cardinality({alignment[k].name : k \in 1..Len(alignment)})

\* C7 amended: the mapping is rebuilt for every chunk. The lines of one chunk
\* bear the distinct identifiers of that chunk, one line each, in the order of
\* their first record; the lines never outnumber the records read, and they are
\* one per identifier when no identifier comes twice.
C7_OneLinePerIdentifierOfAChunk ==
    /\ ChunkProcessed =>
        LET names == context_seqs_dict.names
            n == Cardinality(Range(names))
            last == SubSeq(LineNames, Len(LineNames) - n + 1, Len(LineNames))
        IN /\ n <= Len(LineNames)
           /\ Range(last) = Range(names)
           /\ \A a, b \in 1..n :
                a < b => \E u, v \in 1..Len(names) :
                            /\ u < v
                            /\ names[u] = last[a] /\ names[v] = last[b]
                            /\ \A w \in 1..(u - 1) : names[w] # last[a]
                            /\ \A w \in 1..(v - 1) : names[w] # last[b]
    /\ Len(LineNames) <= Len(alignment)
    /\ ((pc = "loop" \/ pc = "done") /\ UniqueNames(alignment)) =>
          LineNames = [k \in 1..Len(alignment) |-> alignment[k].name]

C7_Witness ==
    /\ ChunkProcessed
    /\ chunk_size = 2
    /\ chunk_count = 2
    /\ Len(alignment) = 3
    /\ \A k \in 1..3 : alignment[k].name = "x"
    /\ LineNames = <<"x", "x">>

\* the number of chunks of N records by k
CeilDiv(n, k) == (n + k - 1) \div k

\* C9: on a context stream of records of the reference length and a positive
\* chunk size k the loop ends, and without error. Chunk number c holds, in
\* stream order, exactly the records from (c-1)k+1 on that the iterator has
\* given out, k of them unless the stream ended; the call that finds no record
\* returns None and ends the loop, after exactly ceil(N/k) chunks on the N
\* records of the stream.
C9_ChunkLoopTerminates ==
    /\ [](WellFormed(alignment, Len(reference)) =>
            /\ (pc = "ValueError" => focal_seqs_dict.kind = "None")
            /\ (ChunkProcessed =>
                  LET first == (chunk_count - 1) * chunk_size IN
                  /\ chunk_count >= 1
                  /\ first < Len(alignment)
                  /\ Len(alignment) <= first + chunk_size
                  /\ Len(alignment) < first + chunk_size => exhausted
                  /\ context_seqs_dict.names
                       = [k \in 1..(Len(alignment) - first) |->
                            alignment[first + k].name])
            /\ (pc = "done" =>
                  /\ exhausted
                  /\ context_seqs_dict.kind = "None"
                  /\ chunk_count = CeilDiv(Len(alignment), chunk_size)))
    /\ (pc = "loop") ~> (pc = "done" \/ ~WellFormed(alignment, Len(reference)))

C9_Witness ==
    /\ pc = "done"
    /\ chunk_count = 3
    /\ Len(alignment) = chunk_count * chunk_size

----------------------------------------------------------------------------
(* Distances of pairs (SpecPair) *)

\* C2 as stated: when at every position where a context sequence and a focal
\* sequence differ (after normalization) at least one of the two is masked,
\* their distance is 0.
C2_MaskedDifferencesCountNothing ==
    ChunkProcessed =>
        \A i \in 1..Len(ChunkRecords), j \in 1..Len(FocalRecords) :
            (\A p \in 1..Len(reference) :
                LET a == ChunkRecords[i].seq[p]
                    b == FocalRecords[j].seq[p]
                IN ~SameSymbol(a, b) => (Unknown(a) \/ Unknown(b)))
            => d[i][j] = 0

\* C4: the distance is symmetric. Entry (i, j) of the distances of the chunk to
\* the focal set is entry (j, i) of the distances of the focal set to the chunk.
C4_DistanceSymmetric ==
    ChunkProcessed =>
        \A i \in 1..Len(d) : \A j \in 1..Len(d[i]) :
            d[i][j] = calculate_distance_matrix(focal_seqs_dict.snps,
                                                context_seqs_dict.snps)[j][i]

C4_Witness ==
    /\ ChunkProcessed
    /\ d[1][1] = 2
    /\ RowCount(context_seqs_dict.snps, 1) = 2
    /\ RowCount(focal_seqs_dict.snps, 1) = 1

\* C6: a sequence without masked positions that differs from the reference at
\* exactly k positions is at distance k from a sequence of the other set that
\* equals the reference everywhere, for every k up to the alignment length.
C6_DistanceToReference ==
    ChunkProcessed =>
        \A i \in 1..Len(ChunkRecords), j \in 1..Len(FocalRecords) :
            LET a == ChunkRecords[i].seq
                b == FocalRecords[j].seq
            IN /\ (MaskedColumns(a) = {} /\ Matches(b, reference))
                    => d[i][j] = Differences(a, reference)
               /\ (MaskedColumns(b) = {} /\ Matches(a, reference))
                    => d[i][j] = Differences(b, reference)

C6_Witness ==
    /\ ChunkProcessed
    /\ MaskedColumns(ChunkRecords[1].seq) = {}
    /\ Matches(FocalRecords[1].seq, reference)
    /\ Differences(ChunkRecords[1].seq, reference) = Len(reference)
    /\ Len(reference) >= 2
    /\ \E p \in 1..Len(reference) : Unknown(reference[p])
    /\ d[1][1] = Len(reference)

----------------------------------------------------------------------------
(* Selection of the closest focal sequence (SpecSelect) *)

\* the least raw distance of context row i
LeastDistance(i) == CHOOSE m \in Range(d[i]) : \A x \in Range(d[i]) : m <= x

\* the distance on the line written for context row i of a chunk of one name
\* per row
WrittenDistance(i) ==
    fh_out[Len(fh_out) - Len(d) + i][3]

\* C8 as stated: the focal sequence chosen for a context sequence has the least
\* raw distance of all focal sequences, and that distance is the one written.
C8_ClosestHasLeastDistance ==
    ChunkProcessed =>
        \A i \in 1..Len(d) :
            /\ d[i][closest_match[i] + 1] = LeastDistance(i)
            /\ WrittenDistance(i) = LeastDistance(i)

\* C8 amended: the focal sequence chosen is the first one of least distance plus
\* masked share, and its raw distance is the one written. It is the least raw
\* distance unless a focal sequence of smaller distance is masked at every
\* position: then the chosen one has no masked position, comes earlier, and is
\* farther by exactly one.
C8_ClosestUpToFullMask ==
    ChunkProcessed =>
        \A i \in 1..Len(d) :
            LET c == closest_match[i] + 1
                masked == [j \in 1..Len(FocalRecords) |->
                             Cardinality(MaskedColumns(FocalRecords[j].seq))]
                len == Len(reference)
            IN /\ WrittenDistance(i) = d[i][c]
               /\ fh_out[Len(fh_out) - Len(d) + i][2] = FocalRecords[c].name
               /\ \A j \in 1..Len(d[i]) :
                    /\ d[i][j] * len + masked[j] >= d[i][c] * len + masked[c]
                    /\ d[i][j] * len + masked[j] = d[i][c] * len + masked[c]
                         => c <= j
                    /\ d[i][j] < d[i][c] =>
                         /\ masked[j] = len
                         /\ masked[c] = 0
                         /\ c < j
                         /\ d[i][c] = d[i][j] + 1
               /\ (\A j \in 1..Len(d[i]) : masked[j] < len)
                    => d[i][c] = LeastDistance(i)

C8_Witness ==
    /\ ChunkProcessed
    /\ Len(reference) = 2
    /\ Len(FocalRecords) = 2
    /\ MaskedColumns(FocalRecords[1].seq) = {}
    /\ MaskedColumns(FocalRecords[2].seq) = {0, 1}
    /\ d[1][2] = 1
    /\ d[1][1] = 2
    /\ closest_match[1] = 0
    /\ WrittenDistance(1) = 2

----------------------------------------------------------------------------
(* One encoder call (SpecEnc, SpecSelf) *)

\* the length every record has to have: that of the consensus given, else that
\* of the first record taken
ReferenceLength ==
    IF ref # {} THEN Len(CHOOSE c \in ref : TRUE)
    ELSE Len(TakenRecords[1].seq)

LengthEstablished == ref # {} \/ TakenRecords # <<>>

\* C3 as stated: every record of the stream whose length is not the reference
\* length makes the call fail; no result comes back with such a record behind
\* it.
C3_EveryMismatchFails ==
    /\ \A k \in 1..Len(alignment) :
          (LengthEstablished /\ Len(alignment[k].seq) # ReferenceLength)
            => pc = "ValueError"
    /\ pc = "returned" /\ returned.kind = "dict" =>
          /\ Len(returned.snps) = Len(TakenRecords)
          /\ \A i \in 1..Len(TakenRecords) :
                Len(returned.snps[i]) = Len(TakenRecords[i].seq)

\* C3 amended: every record the call takes from the stream and does not skip
\* (its name is not in ignore_seqs) whose length is not the reference length
\* makes the call fail, at that record; a result that comes back has one row
\* per such record, as long as the record.
C3_MismatchOfTakenRecordFails ==
    /\ \A i \in 1..Len(TakenRecords) :
          Len(TakenRecords[i].seq) # ReferenceLength
            => /\ pc = "ValueError"
               /\ i = Len(TakenRecords)
               /\ NotIgnored(alignment[Len(alignment)])
    /\ pc = "ValueError" =>
          Len(alignment[Len(alignment)].seq) # ReferenceLength
    /\ pc = "returned" /\ returned.kind = "dict" =>
          /\ Len(returned.snps) = Len(TakenRecords)
          /\ \A i \in 1..Len(TakenRecords) :
                /\ Len(returned.snps[i]) = Len(TakenRecords[i].seq)
                /\ Len(returned.snps[i]) = ReferenceLength

C3_Witness ==
    /\ pc = "ValueError"
    /\ Len(alignment) = 2
    /\ ignore_seqs = {}
    /\ ref = {}
    /\ Len(alignment[1].seq) = 2
    /\ Len(alignment[2].seq) = 1

\* the row of the result is all zero
RowEmpty(i) == \A p \in 1..Len(returned.snps[i]) : returned.snps[i][p] = 0

\* C5 as stated: a sequence encoded against itself as the reference gives a
\* row without entries and an empty list of masked positions.
C5_SelfEncodingEmpty ==
    (pc = "returned" /\ returned.kind = "dict") =>
        \A i \in 1..Len(TakenRecords) :
            Matches(TakenRecords[i].seq, returned.consensus)
                => /\ RowEmpty(i)
                   /\ returned.filled_positions[i] = <<>>

\* C5 amended: a sequence encoded against itself as the reference gives a row
\* without entries, and its list of masked positions is the list of its
\* positions that hold a symbol other than a, c, g, t, in ascending order:
\* empty just when it has no gap and no unknown symbol.
C5_SelfEncodingRowEmpty ==
    (pc = "returned" /\ returned.kind = "dict") =>
        \A i \in 1..Len(TakenRecords) :
            Matches(TakenRecords[i].seq, returned.consensus)
                => /\ RowEmpty(i)
                   /\ returned.filled_positions[i]
                        = Ascending(MaskedColumns(TakenRecords[i].seq))

C5_Witness ==
    /\ pc = "returned"
    /\ returned.kind = "dict"
    /\ ref = {}
    /\ alignment = <<[name |-> "x", seq |-> <<45, 65>>]>>
    /\ RowEmpty(1)
    /\ returned.filled_positions = << <<0>> >>

----------------------------------------------------------------------------
(* The triple buffers (SpecBuf) *)

\* C10: at every write of the triples of a record the triple count right is at
\* most the capacity current_length of row, col and val, and the arrays
\* returned hold exactly the SNPs of all the records.
C10_BufferCapacity ==
    /\ enc.right <= enc.current_length
    /\ pc = "returned" =>
         returned.length = SumOver(DOMAIN alignment, alignment)

C10_Witness ==
    /\ pc = "returned"
    /\ enc.current_length = 4 * INITIALISATION_LENGTH
    /\ returned.length = 3 * INITIALISATION_LENGTH

====
